---- MODULE Spec2Model ----
(***************************************************************************)
(* Airport ride pooling: the booking and cancellation handlers of          *)
(* src/controllers/rideController.js, the matching engine                  *)
(* (src/unnamed/part_000, the engine with the fallback branch) and the     *)
(* pricing service, over a store of Cab, ActiveRide and RideRequest        *)
(* documents.                                                              *)
(*                                                                         *)
(* Every handler is an async function: it is cut into one action per       *)
(* group of awaits that touch the store, so that handlers interleave       *)
(* exactly where the event loop lets them.                                 *)
(*                                                                         *)
(* The store is taken at the level the handlers are written against:       *)
(*  - a read (findById, aggregate, countDocuments) returns the last        *)
(*    committed documents;                                                 *)
(*  - save() of a loaded ActiveRide is conditional on its __v              *)
(*    (optimisticConcurrency) and raises VersionError otherwise;           *)
(*  - save() of a new ActiveRide raises E11000 when the partial unique     *)
(*    index {cabId, status: active} already holds the cab;                 *)
(*  - the writes of one session become visible together at                 *)
(*    commitTransaction and are dropped by abortTransaction/endSession.    *)
(* The conditional write of a trip and the commit that follows it are one  *)
(* step: between them the handler only writes its own RideRequest.         *)
(*                                                                         *)
(* Units: a point is <<lon, lat>> in hundredths of a degree near <<0,0>>,  *)
(* distances are metres, prices are cents, multipliers are hundredths.     *)
(***************************************************************************)
EXTENDS Integers, Sequences, FiniteSets, TLC

VARIABLES
  cabs,        \* Cab collection: cab id -> [capacity, currentLocation]
  rides,       \* ActiveRide collection: sequence, ride id = index
  requests,    \* RideRequest collection: booking id -> persisted record
  pc,          \* bookRide call -> position in the handler
  req,         \* bookRide call -> its in-memory rideRequest document
  bestMatch,   \* bookRide call -> its bestMatch object
  activeRide,  \* bookRide call -> the ActiveRide document it loaded
  retryCount,  \* bookRide call -> retryCount
  fresh,       \* bookRide call -> what its last findBestMatch returned, with
               \* the __v of the trip it read (history, not in the code)
  response,    \* bookRide call -> HTTP status sent (0: none yet)
  cpc,         \* cancelRide call -> position in the handler
  cargs,       \* cancelRide call -> [rideId, userId] of req.params
  cdoc,        \* cancelRide call -> the ActiveRide document it loaded
  cresponse,   \* cancelRide call -> HTTP status sent (0: none yet)
  cremaining,  \* cancelRide call -> data.remainingPassengers of its response
               \* (0: the response has no data)
  cancelled,   \* the <<rideId, userId>> a cancelRide has answered 200 for
               \* (history, not in the code)
  quote        \* the object the last call of calculateDynamicPrice made on its
               \* own returned (SpecQuote)

vars == <<cabs, rides, requests, pc, req, bestMatch, activeRide, retryCount,
          fresh, response, cpc, cargs, cdoc, cresponse, cremaining, cancelled,
          quote>>

bookVars == <<pc, req, bestMatch, activeRide, retryCount, fresh, response>>
cancelVars == <<cpc, cargs, cdoc, cresponse, cremaining, cancelled>>

(***************************************************************************)
(* Bounds of the model.                                                    *)
(***************************************************************************)
NumBookings == 3      \* bookRide calls made in one behaviour
NumCancels == 2       \* cancelRide calls made in one behaviour
MaxLuggage == 2       \* luggageCount of a request ranges over 1..MaxLuggage
NumCabs == 1          \* cabs in the Cab collection
CabCapacity == 3      \* largest capacity of a cab
MinCapacity == 2      \* smallest capacity of a cab
MaxFleet == 4         \* most cabs of a Cab collection that prices are quoted on
MatchFleet == 2       \* most cabs of a Cab collection that matches are sought in

(***************************************************************************)
(* Program constants.                                                      *)
(***************************************************************************)
maxRetries == 3
DefaultDetourTolerance == 5
AverageSpeedKmh == 40
MaxDistanceM == 50000
services_MaxDistanceM == 5000
BASE_FARE == 500
DISTANCE_RATE == 250
POOL_DISCOUNT_PCT == 15
MIN_DISCOUNT_PCT == 50
SURGE_THRESHOLD_PCT == 30
MAX_SURGE_PCT == 300
MIN_SURGE_PCT == 100

\* Users that booked before the behaviour starts (SpecWarm); the bookRide
\* calls of a behaviour are made by the users after them.
EarlierUsers == {1, 2}
Calls == (Cardinality(EarlierUsers) + 1)..(Cardinality(EarlierUsers) + NumBookings)
Users == EarlierUsers \cup Calls
Cancels == 1..NumCancels
CabIds == 1..NumCabs

CabLocation == <<0, 0>>
PickupPoint == <<1, 0>>
DropoffPoint == <<3, 0>>

(***************************************************************************)
(* Geometry.                                                               *)
(***************************************************************************)
\* R * c of the haversine formula, in metres, for two points whose
\* coordinates differ by dx and dy hundredths of a degree (dx*dx + dy*dy = n):
\* on the grid 0..3 x 0..3 next to <<0,0>> it equals 1111.95 * sqrt(n) to the
\* metre.
HaversineM == <<1112, 1573, 1926, 2224, 2486, 2724, 2942, 3145, 3336,
                3516, 3688, 3852, 4009, 4161, 4307, 4448, 4585, 4718>>

calculateDistance(coord1, coord2) ==
  LET dLon == coord2[1] - coord1[1]
      dLat == coord2[2] - coord1[2]
      n == dLon * dLon + dLat * dLat
  IN IF n = 0 THEN 0 ELSE HaversineM[n]

\* The for loop of calculateRouteDistance, from index i on (counted from 1).
RECURSIVE RouteDistanceFrom(_, _)
RouteDistanceFrom(route, i) ==
  IF i >= Len(route) THEN 0
  ELSE calculateDistance(route[i], route[i + 1]) + RouteDistanceFrom(route, i + 1)

calculateRouteDistance(route) ==
  IF Len(route) < 2 THEN 0 ELSE RouteDistanceFrom(route, 1)

(***************************************************************************)
(* Matching engine.  The reads of the engine take the collections as        *)
(* parameters: cabDB is the Cab collection, rideDB the ActiveRide           *)
(* collection.                                                              *)
(***************************************************************************)
Max(a, b) == IF a >= b THEN a ELSE b

\* A surge factor that is not capped.
Uncapped(a, b) == a

Min(a, b) == IF a <= b THEN a ELSE b

RECURSIVE SumLuggage(_)
SumLuggage(passengers) ==
  IF passengers = <<>> THEN 0
  ELSE Head(passengers).luggageCount + SumLuggage(Tail(passengers))

\* A passenger sub-document carries no detourTolerance (passengerSchema), so
\* passenger.detourTolerance || 5 is 5.  maxDetourKm = tolerance / 60 * 40:
\* extraKm <= maxDetourKm is compared in metres, cross-multiplied.
checkDetourTolerance(passenger, newRequest, originalRoute, newRoute) ==
  IF /\ passenger.pickupLocation[1] = newRequest.pickupLocation[1]
     /\ passenger.dropoffLocation[1] = newRequest.dropoffLocation[1]
  THEN TRUE
  ELSE LET originalDistance == calculateRouteDistance(originalRoute)
           newDistance == calculateRouteDistance(newRoute)
           extraM == newDistance - originalDistance
       IN extraM * 60 <= DefaultDetourTolerance * AverageSpeedKmh * 1000

\* An engine without the luggage check.
AnyLuggage(passengers, newLuggageCount, cabCapacity) == TRUE

checkLuggageConstraint(passengers, newLuggageCount, cabCapacity) ==
  SumLuggage(passengers) + newLuggageCount <= cabCapacity

\* A route builder that takes the points in the order they were listed.
ListedFirst(remaining, last, i, best) == 1

\* The index in remaining of the point nearest to last: the first one among
\* equally near points (distance < minDistance keeps the earlier point).
RECURSIVE NearestIndex(_, _, _, _)
NearestIndex(remaining, last, i, best) ==
  IF i > Len(remaining) THEN best
  ELSE IF best = 0 \/ calculateDistance(last, remaining[i])
                        < calculateDistance(last, remaining[best])
       THEN NearestIndex(remaining, last, i + 1, i)
       ELSE NearestIndex(remaining, last, i + 1, best)

RemoveAt(s, i) == SubSeq(s, 1, i - 1) \o SubSeq(s, i + 1, Len(s))

\* The while loop of createOptimalRoute.  s is the pair of route and
\* remaining after route.push and remaining.splice.
RECURSIVE NearestNeighbour(_, _)
NearestNeighbour(route, remaining) ==
  IF remaining = <<>> THEN route
  ELSE LET n == NearestIndex(remaining, route[Len(route)], 1, 0)
       IN CHOOSE r \in {NearestNeighbour(s[1], s[2]) :
                          s \in {<<Append(route, remaining[n]), RemoveAt(remaining, n)>>}} :
            TRUE

createOptimalRoute(currentPassengers, newRequest, cabLocation) ==
  LET pickups == [i \in 1..Len(currentPassengers) |-> currentPassengers[i].pickupLocation]
      dropoffs == [i \in 1..Len(currentPassengers) |-> currentPassengers[i].dropoffLocation]
      remaining == <<newRequest.pickupLocation, newRequest.dropoffLocation>>
                     \o pickups \o dropoffs
  IN NearestNeighbour(<<cabLocation>>, remaining)

\* Thousandths of the score: baseDistance is in km, so in metres here; each
\* detourRatio * 10 is truncated to thousandths.  directDistance || 1 is 1 km.
RECURSIVE DetourPenalty(_, _)
DetourPenalty(passengers, baseDistance) ==
  IF passengers = <<>> THEN 0
  ELSE LET p == Head(passengers)
           directDistance == calculateDistance(p.pickupLocation, p.dropoffLocation)
           divisor == IF directDistance = 0 THEN 1000 ELSE directDistance
       IN ((baseDistance - directDistance) * 10 * 1000) \div divisor
            + DetourPenalty(Tail(passengers), baseDistance)

calculateDeviationScore(currentPassengers, newRequest, candidateRoute) ==
  LET baseDistance == calculateRouteDistance(candidateRoute)
  IN baseDistance + DetourPenalty(currentPassengers, baseDistance)

\* Hundredths of a minute, truncated.
calculateEstimatedTime(route) ==
  (calculateRouteDistance(route) * 60 * 100) \div (AverageSpeedKmh * 1000)

NoMatch ==
  [type |-> "none", cabId |-> 0, activeRideId |-> 0, route |-> <<>>,
   deviationScore |-> 0, estimatedTime |-> 0]

\* $geoNear: the cabs within maxDistance of the point, nearest first (equally
\* near cabs by id).
RECURSIVE GeoNear(_, _, _)
GeoNear(S, near, cabDB) ==
  IF S = {} THEN <<>>
  ELSE LET d(c) == calculateDistance(near, cabDB[c].currentLocation)
           c == CHOOSE x \in S : \A y \in S : d(x) < d(y) \/ (d(x) = d(y) /\ x <= y)
       IN <<c>> \o GeoNear(S \ {c}, near, cabDB)

\* The ids of the rides of a set, in increasing order.
RECURSIVE Ascending(_)
Ascending(S) ==
  IF S = {} THEN <<>>
  ELSE LET m == CHOOSE x \in S : \A y \in S : x <= y
       IN <<m>> \o Ascending(S \ {m})

\* $lookup with status = active, then $unwind with
\* preserveNullAndEmptyArrays: one row per active ride of the cab, or one row
\* without a ride (activeRide 0).
LookupActiveRide(c, rideDB) ==
  LET active == {r \in DOMAIN rideDB : rideDB[r].cabId = c /\ rideDB[r].status = "active"}
  IN IF active = {} THEN <<[cab |-> c, activeRide |-> 0]>>
     ELSE [i \in 1..Cardinality(active) |-> [cab |-> c, activeRide |-> Ascending(active)[i]]]

RECURSIVE Unwind(_, _)
Unwind(cabSeq, rideDB) ==
  IF cabSeq = <<>> THEN <<>>
  ELSE LookupActiveRide(Head(cabSeq), rideDB) \o Unwind(Tail(cabSeq), rideDB)

nearbyCabs(newRequest, cabDB, rideDB) ==
  LET within == {c \in DOMAIN cabDB :
                   calculateDistance(newRequest.pickupLocation, cabDB[c].currentLocation)
                     <= MaxDistanceM}
  IN Unwind(GeoNear(within, newRequest.pickupLocation, cabDB), rideDB)

PassengersOf(row, rideDB) ==
  IF row.activeRide = 0 THEN <<>> ELSE rideDB[row.activeRide].passengers

\* One pass of the scoring loop from the detour check on, for the
\* candidateRoute built for the cab.
Scored(row, currentPassengers, newRequest, cabData, candidateRoute) ==
  LET originalRoutePoints ==
        <<cabData.currentLocation>>
          \o [i \in 1..Len(currentPassengers) |-> currentPassengers[i].pickupLocation]
          \o [i \in 1..Len(currentPassengers) |-> currentPassengers[i].dropoffLocation]
      validDetour ==
        row.activeRide = 0 \/
        \A i \in 1..Len(currentPassengers) :
          checkDetourTolerance(currentPassengers[i], newRequest,
                               originalRoutePoints, candidateRoute)
  IN IF ~validDetour THEN NoMatch
     ELSE [type |-> IF row.activeRide # 0 THEN "pooling" ELSE "new_ride",
           cabId |-> row.cab,
           activeRideId |-> row.activeRide,
           route |-> candidateRoute,
           deviationScore |-> calculateDeviationScore(currentPassengers, newRequest,
                                                      candidateRoute),
           estimatedTime |-> calculateEstimatedTime(candidateRoute)]

\* One pass of the scoring loop over cabData: the candidate's match object, or
\* NoMatch when a continue skips it.
Candidate(row, newRequest, cabDB, rideDB) ==
  LET cabData == cabDB[row.cab]
      currentPassengers == PassengersOf(row, rideDB)
      availableSeats == cabData.capacity - Len(currentPassengers)
  IN IF availableSeats <= 0 THEN NoMatch
     ELSE IF ~checkLuggageConstraint(currentPassengers, newRequest.luggageCount,
                                     cabData.capacity) THEN NoMatch
     ELSE CHOOSE m \in {Scored(row, currentPassengers, newRequest, cabData, candidateRoute) :
                          candidateRoute \in {createOptimalRoute(currentPassengers, newRequest,
                                                                 cabData.currentLocation)}} :
            TRUE

\* A scoring loop that keeps the first candidate it accepts.
FirstCandidate(rows, i, newRequest, cabDB, rideDB, best) ==
  LET accepted == {k \in i..Len(rows) :
                     Candidate(rows[k], newRequest, cabDB, rideDB).type # "none"}
  IN IF best.type # "none" \/ accepted = {} THEN best
     ELSE Candidate(rows[CHOOSE k \in accepted : \A l \in accepted : k <= l],
                    newRequest, cabDB, rideDB)

\* The scoring loop from row i on.  bestScore = Infinity exactly while
\* bestMatch is null.
RECURSIVE ScoringLoop(_, _, _, _, _, _)
ScoringLoop(rows, i, newRequest, cabDB, rideDB, best) ==
  IF i > Len(rows) THEN best
  ELSE CHOOSE m \in {IF cand.type # "none"
                        /\ (best.type = "none" \/ cand.deviationScore < best.deviationScore)
                     THEN ScoringLoop(rows, i + 1, newRequest, cabDB, rideDB, cand)
                     ELSE ScoringLoop(rows, i + 1, newRequest, cabDB, rideDB, best) :
                       cand \in {Candidate(rows[i], newRequest, cabDB, rideDB)}} :
         TRUE

\* The fallback branch: the first row with a free seat, as a new_ride.
FallbackMatch(row, candidateRoute) ==
  [type |-> "new_ride",
   cabId |-> row.cab,
   activeRideId |-> 0,
   route |-> candidateRoute,
   deviationScore |-> calculateRouteDistance(candidateRoute),
   estimatedTime |-> calculateEstimatedTime(candidateRoute)]

RECURSIVE FallbackLoop(_, _, _, _, _)
FallbackLoop(rows, i, newRequest, cabDB, rideDB) ==
  IF i > Len(rows) THEN NoMatch
  ELSE LET cabData == cabDB[rows[i].cab]
           passengers == PassengersOf(rows[i], rideDB)
           availableSeats == cabData.capacity - Len(passengers)
       IN IF availableSeats > 0
          THEN CHOOSE m \in {FallbackMatch(rows[i], candidateRoute) :
                               candidateRoute \in {createOptimalRoute(passengers, newRequest,
                                                                      cabData.currentLocation)}} :
                 TRUE
          ELSE FallbackLoop(rows, i + 1, newRequest, cabDB, rideDB)

BestOf(rows, best, newRequest, cabDB, rideDB) ==
  IF best.type = "none" /\ Len(rows) > 0
  THEN FallbackLoop(rows, 1, newRequest, cabDB, rideDB)
  ELSE best

findBestMatch(newRequest, cabDB, rideDB) ==
  CHOOSE m \in {BestOf(rows, ScoringLoop(rows, 1, newRequest, cabDB, rideDB, NoMatch),
                       newRequest, cabDB, rideDB) :
                  rows \in {nearbyCabs(newRequest, cabDB, rideDB)}} :
    TRUE

(***************************************************************************)
(* The engine of services/matchingEngine.js, the module the controller     *)
(* requires: $geoNear within 5 km, $lookup of the rides of the cab without *)
(* a condition on their status, the detour as a percentage of the          *)
(* passenger's direct distance, no fallback.  createOptimalRoute,          *)
(* checkLuggageConstraint and calculateEstimatedTime are the same.         *)
(***************************************************************************)
\* $lookup on cabId, then $unwind: one row per ride of the cab whatever its
\* status, or one row without a ride.
services_LookupRide(c, rideDB) ==
  LET joined == {r \in DOMAIN rideDB : rideDB[r].cabId = c}
  IN IF joined = {} THEN <<[cab |-> c, activeRide |-> 0]>>
     ELSE [i \in 1..Cardinality(joined) |-> [cab |-> c, activeRide |-> Ascending(joined)[i]]]

RECURSIVE services_Unwind(_, _)
services_Unwind(cabSeq, rideDB) ==
  IF cabSeq = <<>> THEN <<>>
  ELSE services_LookupRide(Head(cabSeq), rideDB) \o services_Unwind(Tail(cabSeq), rideDB)

services_nearbyCabs(newRequest, cabDB, rideDB) ==
  LET within == {c \in DOMAIN cabDB :
                   calculateDistance(newRequest.pickupLocation, cabDB[c].currentLocation)
                     <= services_MaxDistanceM}
  IN services_Unwind(GeoNear(within, newRequest.pickupLocation, cabDB), rideDB)

\* detourPercentage <= maxDetourDistance, cross-multiplied; a direct
\* distance of 0 gives Infinity or NaN, and the comparison is false.
services_checkDetourTolerance(passenger, newRequest, originalRoute, newRoute) ==
  LET originalDistance == calculateDistance(passenger.pickupLocation,
                                            passenger.dropoffLocation)
      newDistance == calculateRouteDistance(newRoute)
  IN /\ originalDistance # 0
     /\ (newDistance - originalDistance) * 100 * 60
          <= DefaultDetourTolerance * AverageSpeedKmh * originalDistance

\* Thousandths of the score: each detourRatio * 100 truncated to
\* thousandths, and baseDistance * 0.1.  The passengers passed the detour
\* check, so their direct distance is not 0.
RECURSIVE services_DetourPenalty(_, _)
services_DetourPenalty(passengers, baseDistance) ==
  IF passengers = <<>> THEN 0
  ELSE LET p == Head(passengers)
           directDistance == calculateDistance(p.pickupLocation, p.dropoffLocation)
       IN ((baseDistance - directDistance) * 100 * 1000) \div directDistance
            + services_DetourPenalty(Tail(passengers), baseDistance)

services_calculateDeviationScore(currentPassengers, newRequest, candidateRoute) ==
  LET baseDistance == calculateRouteDistance(candidateRoute)
  IN baseDistance + services_DetourPenalty(currentPassengers, baseDistance)
       + baseDistance \div 10

services_Scored(row, currentPassengers, newRequest, candidateRoute) ==
  LET validDetour ==
        \A i \in 1..Len(currentPassengers) :
          services_checkDetourTolerance(currentPassengers[i], newRequest,
                                        <<currentPassengers[i].pickupLocation,
                                          currentPassengers[i].dropoffLocation>>,
                                        candidateRoute)
  IN IF ~validDetour THEN NoMatch
     ELSE [type |-> IF row.activeRide # 0 THEN "pooling" ELSE "new_ride",
           cabId |-> row.cab,
           activeRideId |-> row.activeRide,
           route |-> candidateRoute,
           deviationScore |-> services_calculateDeviationScore(currentPassengers, newRequest,
                                                               candidateRoute),
           estimatedTime |-> calculateEstimatedTime(candidateRoute)]

services_Candidate(row, newRequest, cabDB, rideDB) ==
  LET cab == cabDB[row.cab]
      currentPassengers == PassengersOf(row, rideDB)
      availableSeats == cab.capacity - Len(currentPassengers)
  IN IF availableSeats <= 0 THEN NoMatch
     ELSE IF ~checkLuggageConstraint(currentPassengers, newRequest.luggageCount,
                                     cab.capacity) THEN NoMatch
     ELSE CHOOSE m \in {services_Scored(row, currentPassengers, newRequest, candidateRoute) :
                          candidateRoute \in {createOptimalRoute(currentPassengers, newRequest,
                                                                 cab.currentLocation)}} :
            TRUE

RECURSIVE services_ScoringLoop(_, _, _, _, _, _)
services_ScoringLoop(rows, i, newRequest, cabDB, rideDB, best) ==
  IF i > Len(rows) THEN best
  ELSE CHOOSE m \in {IF cand.type # "none"
                        /\ (best.type = "none" \/ cand.deviationScore < best.deviationScore)
                     THEN services_ScoringLoop(rows, i + 1, newRequest, cabDB, rideDB, cand)
                     ELSE services_ScoringLoop(rows, i + 1, newRequest, cabDB, rideDB, best) :
                       cand \in {services_Candidate(rows[i], newRequest, cabDB, rideDB)}} :
         TRUE

services_findBestMatch(newRequest, cabDB, rideDB) ==
  CHOOSE m \in {services_ScoringLoop(rows, 1, newRequest, cabDB, rideDB, NoMatch) :
                  rows \in {services_nearbyCabs(newRequest, cabDB, rideDB)}} :
    TRUE

(***************************************************************************)
(* Pricing service.                                                        *)
(***************************************************************************)
\* Hundredths.  supplyDemandRatio < SURGE_THRESHOLD is compared
\* cross-multiplied; the surge factor is truncated to hundredths.
calculateSurgeMultiplier(cabDB, rideDB, requestDB) ==
  LET totalCabs == Cardinality(DOMAIN cabDB)
      activeCabs == {rideDB[r].cabId : r \in DOMAIN rideDB}
      availableCabs == totalCabs - Cardinality(activeCabs)
      pendingRequests ==
        Cardinality({b \in DOMAIN requestDB : requestDB[b].status = "pending"})
      demand == Max(pendingRequests, 1)
  IN IF availableCabs * 100 < SURGE_THRESHOLD_PCT * demand
     THEN Min(100 + ((SURGE_THRESHOLD_PCT * demand - availableCabs * 100) * 10) \div demand,
              MAX_SURGE_PCT)
     ELSE MIN_SURGE_PCT

\* The discount taken for every passenger count, without the solo case and
\* without the floor.
FlatDiscount(passengerCount) == 100 - passengerCount * POOL_DISCOUNT_PCT

\* Hundredths.
calculatePoolDiscountFactor(passengerCount) ==
  IF passengerCount <= 1 THEN 100
  ELSE Max(100 - passengerCount * POOL_DISCOUNT_PCT, MIN_DISCOUNT_PCT)

\* roundedPrice in cents: (BASE_FARE + distanceCost) * surge * discount,
\* rounded half up.  basePrice is kept in quarter cents, which is exact for
\* a distance in metres at DISTANCE_RATE cents per km.
roundedPrice(distance, surgeMultiplier, poolDiscountFactor) ==
  LET basePrice4 == (BASE_FARE * 1000 + distance * DISTANCE_RATE) \div 250
      finalPrice == basePrice4 * surgeMultiplier * poolDiscountFactor
  IN (2 * finalPrice + 40000) \div 80000

\* The price of the object calculateDynamicPrice returns.
calculateDynamicPrice(pickupLocation, dropoffLocation, passengerCount, cabDB, rideDB, requestDB) ==
  roundedPrice(calculateDistance(pickupLocation, dropoffLocation),
               calculateSurgeMultiplier(cabDB, rideDB, requestDB),
               calculatePoolDiscountFactor(passengerCount))

\* calculateSurgeMultiplier with its try and catch: a count that fails
\* (lookupFailed) is caught and gives MIN_SURGE_MULTIPLIER.
surgeLookup(lookupFailed, cabDB, rideDB, requestDB) ==
  IF lookupFailed THEN MIN_SURGE_PCT
  ELSE calculateSurgeMultiplier(cabDB, rideDB, requestDB)

\* The object calculateDynamicPrice returns: success, price and breakdown
\* (the distance in metres), with whether the surge lookup had failed.
priceResult(pickupLocation, dropoffLocation, passengerCount, lookupFailed, cabDB, rideDB, requestDB) ==
  LET distance == calculateDistance(pickupLocation, dropoffLocation)
      surgeMultiplier == surgeLookup(lookupFailed, cabDB, rideDB, requestDB)
      poolDiscountFactor == calculatePoolDiscountFactor(passengerCount)
  IN [success |-> TRUE,
      price |-> roundedPrice(distance, surgeMultiplier, poolDiscountFactor),
      distance |-> distance,
      surgeMultiplier |-> surgeMultiplier,
      poolDiscountFactor |-> poolDiscountFactor,
      passengerCount |-> passengerCount,
      lookupFailed |-> lookupFailed]

NoQuote ==
  [success |-> FALSE, price |-> 0, distance |-> 0, surgeMultiplier |-> 0,
   poolDiscountFactor |-> 0, passengerCount |-> 0, lookupFailed |-> FALSE]

(***************************************************************************)
(* Documents.                                                              *)
(***************************************************************************)
NoRequest ==
  [userId |-> 0, pickupLocation |-> <<>>, dropoffLocation |-> <<>>,
   detourTolerance |-> 0, luggageCount |-> 0, status |-> "none", price |-> 0]

NoRide ==
  [id |-> 0, cabId |-> 0, passengers |-> <<>>, currentRoute |-> <<>>,
   status |-> "none", totalPrice |-> 0, v |-> 0]

NoFresh == [type |-> "none", cabId |-> 0, activeRideId |-> 0, route |-> <<>>, v |-> 0]

NoArgs == [rideId |-> 0, userId |-> 0]

\* new RideRequest({...}): status defaults to pending, price to 0.
NewRideRequest(body) ==
  [userId |-> body.userId,
   pickupLocation |-> body.pickupLocation,
   dropoffLocation |-> body.dropoffLocation,
   detourTolerance |-> body.detourTolerance,
   luggageCount |-> body.luggageCount,
   status |-> "pending",
   price |-> 0]

\* The passenger sub-document pushed for a request.
Passenger(r) ==
  [userId |-> r.userId, pickupLocation |-> r.pickupLocation,
   dropoffLocation |-> r.dropoffLocation, luggageCount |-> r.luggageCount]

\* new ActiveRide({...}): status defaults to active, __v starts at 0.
NewActiveRide(cabId, r, route, totalPrice) ==
  [cabId |-> cabId, passengers |-> <<Passenger(r)>>, currentRoute |-> route,
   status |-> "active", totalPrice |-> totalPrice, v |-> 0]

\* The coordinates validator of the schemas.
ValidCoordinates(coordinates) ==
  /\ Len(coordinates) = 2
  /\ coordinates[1] >= -18000 /\ coordinates[1] <= 18000
  /\ coordinates[2] >= -9000 /\ coordinates[2] <= 9000

\* A bookRide without its checks of the body.
AnyBody(body) == TRUE

\* The checks of bookRide before the request is built: a required field is
\* there and each location is a Point of two coordinates.
WellFormedBody(body) ==
  /\ body.userId # 0
  /\ Len(body.pickupLocation) = 2
  /\ Len(body.dropoffLocation) = 2

(***************************************************************************)
(* The store.                                                              *)
(***************************************************************************)
\* ActiveRide.findById: the committed document with its id, or NoRide.
findById(id, rideDB) ==
  IF id \in DOMAIN rideDB
  THEN [id |-> id, cabId |-> rideDB[id].cabId, passengers |-> rideDB[id].passengers,
        currentRoute |-> rideDB[id].currentRoute, status |-> rideDB[id].status,
        totalPrice |-> rideDB[id].totalPrice, v |-> rideDB[id].v]
  ELSE NoRide

\* A save() without optimisticConcurrency: it finds the document whatever
\* its __v.
SavesAnyVersion(doc, rideDB) == TRUE

\* optimisticConcurrency: save() of a loaded document finds it only under
\* the __v it was loaded with.
VersionMatches(doc, rideDB) == rideDB[doc.id].v = doc.v

\* The document as stored by a successful save(): __v incremented.
Stored(doc) ==
  [cabId |-> doc.cabId, passengers |-> doc.passengers,
   currentRoute |-> doc.currentRoute, status |-> doc.status,
   totalPrice |-> doc.totalPrice, v |-> doc.v + 1]

\* The pooling branch without its capacity check.
NeverFilled(doc, cab) == FALSE

\* The VersionError handler copying only the trip of updatedMatch.
RefreshedTripOnly(match, updatedMatch) ==
  [match EXCEPT !.activeRideId = updatedMatch.activeRideId]

\* if (activeRide.passengers.length >= cab.capacity) of the pooling branch.
CapacityFilled(doc, cab) == Len(doc.passengers) >= cab.capacity

\* What the VersionError handler copies from updatedMatch into bestMatch.
Refreshed(match, updatedMatch) ==
  [match EXCEPT !.activeRideId = updatedMatch.activeRideId,
                !.route = updatedMatch.route,
                !.estimatedTime = updatedMatch.estimatedTime]

\* The loaded trip after passengers.push, currentRoute.coordinates = route
\* and totalPrice = price.
Pooled(doc, passengers, route, price) ==
  [doc EXCEPT !.passengers = passengers, !.currentRoute = route, !.totalPrice = price]

\* The ActiveRide collection of the schema without the index on cabId:
\* an insert never meets a duplicate key.
NoUniqueIndex(cabId, rideDB) == FALSE

\* The partial unique index {cabId: 1} on status = active: inserting an
\* active ride for a cab that has one is a duplicate key (E11000).
DuplicateKey(cabId, rideDB) ==
  \E r \in DOMAIN rideDB : rideDB[r].cabId = cabId /\ rideDB[r].status = "active"

\* Cab.findOne({capacity: {$gte: 1}}): the first such cab, 0 when there is none.
findOneCab(cabDB) ==
  LET S == {c \in DOMAIN cabDB : cabDB[c].capacity >= 1}
  IN IF S = {} THEN 0 ELSE CHOOSE c \in S : \A d \in S : c <= d

\* What findBestMatch read, with the __v of the trip it names.
Read(m, rideDB) ==
  [type |-> m.type, cabId |-> m.cabId, activeRideId |-> m.activeRideId,
   route |-> m.route,
   v |-> IF m.activeRideId \in DOMAIN rideDB THEN rideDB[m.activeRideId].v ELSE 0]

(***************************************************************************)
(* Sessions.  A handler's writes reach the collections when it commits     *)
(* its transaction; abortTransaction, and endSession with a transaction    *)
(* still open (a return from inside the try block), drop them.             *)
(***************************************************************************)
\* The trip saved outside the session of the request: only the trip is kept.
commitRideOnly(b, rideDB, requestDoc) ==
  /\ rides' = rideDB
  /\ requests' = requests

\* A commit that writes the RideRequest collection anew with the request of
\* the call alone.
commitOverwriting(b, rideDB, requestDoc) ==
  /\ rides' = rideDB
  /\ requests' = [u \in Users |-> IF u = b THEN requestDoc ELSE NoRequest]

commitTransaction(b, rideDB, requestDoc) ==
  /\ rides' = rideDB
  /\ requests' = [requests EXCEPT ![b] = requestDoc]

abortTransaction(b) ==
  /\ rides' = rides
  /\ requests' = requests

\* res.status(status).json(...): the handler is over, its locals are gone.
Respond(b, status) ==
  /\ pc' = [pc EXCEPT ![b] = "done"]
  /\ response' = [response EXCEPT ![b] = status]
  /\ req' = [req EXCEPT ![b] = NoRequest]
  /\ bestMatch' = [bestMatch EXCEPT ![b] = NoMatch]
  /\ activeRide' = [activeRide EXCEPT ![b] = NoRide]
  /\ retryCount' = [retryCount EXCEPT ![b] = 0]
  /\ fresh' = [fresh EXCEPT ![b] = NoFresh]

Matched(r, price) == [r EXCEPT !.status = "matched", !.price = price]

(***************************************************************************)
(* bookRide.                                                               *)
(***************************************************************************)
\* The request bodies a call can carry: well-formed ones, and ones without
\* userId (0), without a location or with a location that is not a Point of
\* two coordinates (<<>>), with a longitude or a latitude out of range.
Bodies(b) ==
  [userId : {b, 0},
   pickupLocation : {PickupPoint, <<>>, <<18001, 0>>},
   dropoffLocation : {DropoffPoint, <<>>, <<0, 9001>>},
   detourTolerance : {DefaultDetourTolerance},
   luggageCount : 1..MaxLuggage]

\* startTransaction, the field and GeoJSON checks, new RideRequest and its
\* save in the session, then const bestMatch = await findBestMatch(rideRequest).
\* Nothing before findBestMatch reads or writes what another handler sees.
BookRide_Begin(b, body) ==
  /\ pc[b] = "idle"
  /\ \A a \in Calls : a < b => pc[a] # "idle"
  /\ IF ~WellFormedBody(body)
     THEN Respond(b, 400) /\ abortTransaction(b)
     ELSE IF ~(ValidCoordinates(body.pickupLocation)
               /\ ValidCoordinates(body.dropoffLocation))
     THEN Respond(b, 400) /\ abortTransaction(b)     \* ValidationError of save
     ELSE \E rideRequest \in {NewRideRequest(body)} :
          \E m \in {findBestMatch(rideRequest, cabs, rides)} :
             /\ req' = [req EXCEPT ![b] = rideRequest]
             /\ bestMatch' = [bestMatch EXCEPT ![b] = m]
             /\ fresh' = [fresh EXCEPT ![b] = Read(m, rides)]
             /\ pc' = [pc EXCEPT ![b] = IF m.type = "none" THEN "claim" ELSE "attempt"]
             /\ UNCHANGED <<rides, requests, activeRide, retryCount, response>>
  /\ UNCHANGED <<cabs, cancelVars, quote>>

\* if (!bestMatch): claim the cab Cab.findOne returns.
BookRide_Claim(b) ==
  /\ pc[b] = "claim"
  /\ LET availableCab == findOneCab(cabs)
         price == calculateDynamicPrice(req[b].pickupLocation, req[b].dropoffLocation,
                                        1, cabs, rides, requests)
         newActiveRide ==
           NewActiveRide(availableCab, req[b],
                         <<cabs[availableCab].currentLocation,
                           req[b].pickupLocation, req[b].dropoffLocation>>,
                         price)
     IN IF availableCab = 0
        THEN Respond(b, 404) /\ abortTransaction(b)
        ELSE IF DuplicateKey(availableCab, rides)
        THEN Respond(b, 409) /\ abortTransaction(b)  \* E11000, outer catch
        ELSE /\ Respond(b, 201)
             /\ commitTransaction(b, Append(rides, newActiveRide), Matched(req[b], price))
  /\ UNCHANGED <<cabs, cancelVars, quote>>

\* A pooling branch that only checks that the trip was found.
NotFound(doc) == doc.id = 0

\* if (!activeRide || activeRide.status !== 'active') of the pooling branch.
NotActive(doc) == doc.id = 0 \/ doc.status # "active"

\* The pooling branch up to the capacity check: ActiveRide.findById,
\* Cab.findById.
BookRide_Load(b) ==
  /\ pc[b] = "attempt"
  /\ bestMatch[b].type = "pooling"
  /\ \E doc \in {findById(bestMatch[b].activeRideId, rides)} :
        IF NotActive(doc)
        THEN Respond(b, 500) /\ abortTransaction(b)  \* 'Active ride not found ...'
        ELSE IF CapacityFilled(doc, cabs[doc.cabId])
        THEN Respond(b, 500) /\ abortTransaction(b)  \* 'Cab capacity filled ...'
        ELSE /\ activeRide' = [activeRide EXCEPT ![b] = doc]
             /\ pc' = [pc EXCEPT ![b] = "save"]
             /\ UNCHANGED <<rides, requests, req, bestMatch, retryCount,
                            fresh, response>>
  /\ UNCHANGED <<cabs, cancelVars, quote>>

\* The new_ride branch: Cab.findById, the price, the insert of the new
\* ActiveRide, the save of the request, commitTransaction.
BookRide_Create(b) ==
  /\ pc[b] = "attempt"
  /\ bestMatch[b].type # "pooling"
  /\ LET cab == bestMatch[b].cabId
         price == calculateDynamicPrice(req[b].pickupLocation, req[b].dropoffLocation,
                                        1, cabs, rides, requests)
         newActiveRide == NewActiveRide(cab, req[b], bestMatch[b].route, price)
     IN IF DuplicateKey(cab, rides)
        THEN Respond(b, 409) /\ abortTransaction(b)  \* E11000, outer catch
        ELSE /\ Respond(b, 200)
             /\ commitTransaction(b, Append(rides, newActiveRide), Matched(req[b], price))
  /\ UNCHANGED <<cabs, cancelVars, quote>>

\* The pooling branch from passengers.push on: the price, the conditional
\* save of the trip, the save of the request, commitTransaction; or the
\* VersionError, caught in the loop.
BookRide_Save(b) ==
  /\ pc[b] = "save"
  /\ LET doc == activeRide[b]
         passengers == Append(doc.passengers, Passenger(req[b]))
         newPassengerCount == Len(passengers)
         price == calculateDynamicPrice(req[b].pickupLocation, req[b].dropoffLocation,
                                        newPassengerCount, cabs, rides, requests)
         updated == Pooled(doc, passengers, bestMatch[b].route, price)
     IN IF VersionMatches(doc, rides)
        THEN /\ Respond(b, 200)
             /\ commitTransaction(b, [rides EXCEPT ![doc.id] = Stored(updated)],
                                  Matched(req[b], price))
        ELSE /\ retryCount' = [retryCount EXCEPT ![b] = @ + 1]
             /\ pc' = [pc EXCEPT ![b] = "rematch"]
             /\ UNCHANGED <<rides, requests, req, bestMatch, activeRide, fresh, response>>
  /\ UNCHANGED <<cabs, cancelVars, quote>>

\* The VersionError handler after retryCount++: findBestMatch again; no
\* match ends the loop with a 409 result, which the handler commits; a match
\* overwrites activeRideId, route and estimatedTime of bestMatch, and the
\* loop goes on while retryCount < maxRetries, else the handler aborts.
BookRide_Rematch(b) ==
  /\ pc[b] = "rematch"
  /\ \E updatedMatch \in {findBestMatch(req[b], cabs, rides)} :
        IF updatedMatch.type = "none"
        THEN Respond(b, 409) /\ commitTransaction(b, rides, req[b])
        ELSE IF retryCount[b] < maxRetries
        THEN /\ bestMatch' = [bestMatch EXCEPT ![b] = Refreshed(@, updatedMatch)]
             /\ fresh' = [fresh EXCEPT ![b] = Read(updatedMatch, rides)]
             /\ pc' = [pc EXCEPT ![b] = "attempt"]
             /\ UNCHANGED <<rides, requests, req, activeRide, retryCount,
                            response>>
        ELSE Respond(b, 409) /\ abortTransaction(b)
  /\ UNCHANGED <<cabs, cancelVars, quote>>

(***************************************************************************)
(* cancelRide.                                                             *)
(***************************************************************************)
CancelRespond(c, status) ==
  /\ cpc' = [cpc EXCEPT ![c] = "done"]
  /\ cresponse' = [cresponse EXCEPT ![c] = status]
  /\ cargs' = [cargs EXCEPT ![c] = NoArgs]
  /\ cdoc' = [cdoc EXCEPT ![c] = NoRide]

\* A cancelRide that removes the first passenger of the trip.
firstPassenger(passengers, userId) == IF passengers = <<>> THEN 0 ELSE 1

\* A cancelRide that puts the request of the removed passenger back to
\* pending.
RequestReopened(requestDB, userId) == [requestDB EXCEPT ![userId].status = "pending"]

\* The RideRequest collection after a cancellation of userId: cancelRide
\* loads and saves the ActiveRide only.
RequestsAfterCancel(requestDB, userId) == requestDB

\* passengers.findIndex(p => p.userId.toString() === userId): 0 for -1.
findIndex(passengers, userId) ==
  LET S == {i \in 1..Len(passengers) : passengers[i].userId = userId}
  IN IF S = {} THEN 0 ELSE CHOOSE i \in S : \A j \in S : i <= j

calculateOptimalRouteForPassengers(passengers, cabLocation) ==
  LET stops == [i \in 1..(2 * Len(passengers)) |->
                  IF i % 2 = 1 THEN passengers[(i + 1) \div 2].pickupLocation
                  ELSE passengers[i \div 2].dropoffLocation]
  IN <<cabLocation>> \o stops

\* A cancelRide without the branch for an emptied trip: the trip keeps its
\* status and gets the recalculated route.
KeptActive(doc, remainingPassengers, cabLocation) ==
  [doc EXCEPT !.passengers = remainingPassengers,
              !.currentRoute =
                calculateOptimalRouteForPassengers(remainingPassengers, cabLocation)]

\* The loaded trip after passengers.splice: status cancelled when no
\* passenger is left, else the recalculated route.
AfterSplice(doc, remainingPassengers, cabLocation) ==
  IF Len(remainingPassengers) = 0
  THEN [doc EXCEPT !.passengers = remainingPassengers, !.status = "cancelled"]
  ELSE [doc EXCEPT !.passengers = remainingPassengers,
                   !.currentRoute =
                     calculateOptimalRouteForPassengers(remainingPassengers, cabLocation)]

\* ActiveRide.findById and the checks up to findIndex.  The route gives both
\* parameters, so the 400 for a missing one is not reached.
Cancel_Load(c, rideId, userId) ==
  /\ cpc[c] = "idle"
  /\ \A d \in Cancels : d < c => cpc[d] # "idle"
  /\ LET doc == findById(rideId, rides)
     IN IF doc.id = 0 THEN CancelRespond(c, 404)
        ELSE IF doc.status # "active" THEN CancelRespond(c, 400)
        ELSE IF findIndex(doc.passengers, userId) = 0 THEN CancelRespond(c, 404)
        ELSE /\ cdoc' = [cdoc EXCEPT ![c] = doc]
             /\ cargs' = [cargs EXCEPT ![c] = [rideId |-> rideId, userId |-> userId]]
             /\ cpc' = [cpc EXCEPT ![c] = "save"]
             /\ UNCHANGED cresponse
  /\ UNCHANGED <<cabs, rides, requests, bookVars, cremaining, cancelled, quote>>

\* splice, then either status = cancelled or the recalculated route, the
\* conditional save and commitTransaction; a VersionError aborts with 409.
Cancel_Save(c) ==
  /\ cpc[c] = "save"
  /\ LET doc == cdoc[c]
         remainingPassengers ==
           RemoveAt(doc.passengers, findIndex(doc.passengers, cargs[c].userId))
         updated == AfterSplice(doc, remainingPassengers, cabs[doc.cabId].currentLocation)
     IN IF VersionMatches(doc, rides)
        THEN /\ rides' = [rides EXCEPT ![doc.id] = Stored(updated)]
             /\ requests' = RequestsAfterCancel(requests, cargs[c].userId)
             /\ cancelled' = cancelled \cup {<<cargs[c].rideId, cargs[c].userId>>}
             /\ cremaining' = [cremaining EXCEPT ![c] = Len(remainingPassengers)]
             /\ CancelRespond(c, 200)
        ELSE /\ rides' = rides
             /\ requests' = requests
             /\ UNCHANGED <<cremaining, cancelled>>
             /\ CancelRespond(c, 409)
  /\ UNCHANGED <<cabs, bookVars, quote>>

(***************************************************************************)
(* Specifications.                                                         *)
(***************************************************************************)
NoRequests == [u \in Users |-> NoRequest]

\* The fleets of the seed: each cab with a capacity, standing at the airport
\* or at the pickup point of the requests.
InitCabs == [CabIds -> [capacity : MinCapacity..CabCapacity, currentLocation : {CabLocation, PickupPoint}]]

InitHandlers ==
  /\ pc = [b \in Calls |-> "idle"]
  /\ req = [b \in Calls |-> NoRequest]
  /\ bestMatch = [b \in Calls |-> NoMatch]
  /\ activeRide = [b \in Calls |-> NoRide]
  /\ retryCount = [b \in Calls |-> 0]
  /\ fresh = [b \in Calls |-> NoFresh]
  /\ response = [b \in Calls |-> 0]
  /\ cpc = [c \in Cancels |-> "idle"]
  /\ cargs = [c \in Cancels |-> NoArgs]
  /\ cdoc = [c \in Cancels |-> NoRide]
  /\ cresponse = [c \in Cancels |-> 0]
  /\ cremaining = [c \in Cancels |-> 0]
  /\ cancelled = {}
  /\ quote = NoQuote

\* The collections after seeding: cabs, no ride, no request.
Init ==
  /\ cabs \in InitCabs
  /\ rides = <<>>
  /\ requests = NoRequests
  /\ InitHandlers

\* A later start: users 1 and 2 have booked, the first a new ride on the
\* idle cab, the second pooled into it, and there is one seat left.
EarlierBody(u) ==
  [userId |-> u, pickupLocation |-> PickupPoint, dropoffLocation |-> DropoffPoint,
   detourTolerance |-> DefaultDetourTolerance, luggageCount |-> 1]

WarmCabs == [c \in CabIds |-> [capacity |-> CabCapacity, currentLocation |-> CabLocation]]

WarmFirstRequest == NewRideRequest(EarlierBody(1))

WarmFirstMatch == findBestMatch(WarmFirstRequest, WarmCabs, <<>>)

WarmFirstPrice ==
  calculateDynamicPrice(WarmFirstRequest.pickupLocation, WarmFirstRequest.dropoffLocation,
                        1, WarmCabs, <<>>, NoRequests)

WarmFirstRides ==
  <<NewActiveRide(WarmFirstMatch.cabId, WarmFirstRequest, WarmFirstMatch.route,
                  WarmFirstPrice)>>

WarmFirstRequests == [NoRequests EXCEPT ![1] = Matched(WarmFirstRequest, WarmFirstPrice)]

WarmSecondRequest == NewRideRequest(EarlierBody(2))

WarmSecondMatch == findBestMatch(WarmSecondRequest, WarmCabs, WarmFirstRides)

WarmSecondLoaded == findById(WarmSecondMatch.activeRideId, WarmFirstRides)

WarmSecondPassengers == Append(WarmSecondLoaded.passengers, Passenger(WarmSecondRequest))

WarmSecondPrice ==
  calculateDynamicPrice(WarmSecondRequest.pickupLocation, WarmSecondRequest.dropoffLocation,
                        Len(WarmSecondPassengers), WarmCabs, WarmFirstRides,
                        WarmFirstRequests)

WarmRides ==
  [WarmFirstRides EXCEPT ![WarmSecondLoaded.id] =
     Stored(Pooled(WarmSecondLoaded, WarmSecondPassengers, WarmSecondMatch.route,
                   WarmSecondPrice))]

WarmRequests ==
  [WarmFirstRequests EXCEPT ![2] = Matched(WarmSecondRequest, WarmSecondPrice)]

InitWarm ==
  /\ cabs = WarmCabs
  /\ rides = WarmRides
  /\ requests = WarmRequests
  /\ InitHandlers

Next ==
  \/ \E b \in Calls : \E body \in Bodies(b) : BookRide_Begin(b, body)
  \/ \E b \in Calls : BookRide_Claim(b)
  \/ \E b \in Calls : BookRide_Load(b)
  \/ \E b \in Calls : BookRide_Create(b)
  \/ \E b \in Calls : BookRide_Save(b)
  \/ \E b \in Calls : BookRide_Rematch(b)
  \/ \E c \in Cancels : \E rideId \in 1..(Len(rides) + 1) : \E userId \in Users :
       Cancel_Load(c, rideId, userId)
  \/ \E c \in Cancels : Cancel_Save(c)

Spec == Init /\ [][Next]_vars

SpecWarm == InitWarm /\ [][Next]_vars

(***************************************************************************)
(* findBestMatch on its own: the collections are drawn from the cabs the   *)
(* Cab schema allows and the trips an earlier booking leaves, and every     *)
(* call runs bookRide up to its findBestMatch.                              *)
(***************************************************************************)
\* Fleets of up to MatchFleet cabs, each of any capacity from the minimum of
\* the schema, at the airport or at the pickup point.
MatchCabs == UNION {[1..k -> [capacity : 1..CabCapacity, currentLocation : {CabLocation, PickupPoint}]] : k \in 1..MatchFleet}

\* Drop-off points off the way of the earlier booking: one nearer, at
\* another longitude, and one at the longitude of DropoffPoint further north.
NearDropoff == <<2, 1>>
NorthDropoff == <<3, 3>>

\* The request bodies findBestMatch is run for: with the default
\* detourTolerance any drop-off and luggage, with a detourTolerance of 0 the
\* drop-offs off the way.
MatchBodies(b) ==
  [userId : {b},
   pickupLocation : {PickupPoint},
   dropoffLocation : {DropoffPoint, NearDropoff, NorthDropoff},
   detourTolerance : {DefaultDetourTolerance},
   luggageCount : 1..MaxLuggage]
  \cup
  [userId : {b},
   pickupLocation : {PickupPoint},
   dropoffLocation : {NearDropoff, NorthDropoff},
   detourTolerance : {0},
   luggageCount : {1}]

\* The request of the booking user 1 made before, with its luggage.
EarlierRequest(luggageCount) ==
  [NewRideRequest(EarlierBody(1)) EXCEPT !.luggageCount = luggageCount]

EarlierPrice(cabDB, luggageCount) ==
  calculateDynamicPrice(EarlierRequest(luggageCount).pickupLocation,
                        EarlierRequest(luggageCount).dropoffLocation,
                        1, cabDB, <<>>, NoRequests)

\* The ActiveRide collection after that booking was made on the cabs without
\* a trip: the new_ride branch of bookRide.
EarlierRides(cabDB, luggageCount) ==
  LET m == findBestMatch(EarlierRequest(luggageCount), cabDB, <<>>)
  IN <<NewActiveRide(m.cabId, EarlierRequest(luggageCount), m.route,
                     EarlierPrice(cabDB, luggageCount))>>

EarlierRequests(cabDB, luggageCount) ==
  [NoRequests EXCEPT ![1] = Matched(EarlierRequest(luggageCount),
                                    EarlierPrice(cabDB, luggageCount))]

\* No booking was made before (luggageCount 0 stands for none), or one.
InitMatch ==
  /\ cabs \in MatchCabs
  /\ \E luggageCount \in 0..MaxLuggage :
       IF luggageCount = 0
       THEN rides = <<>> /\ requests = NoRequests
       ELSE /\ rides = EarlierRides(cabs, luggageCount)
            /\ requests = EarlierRequests(cabs, luggageCount)
  /\ InitHandlers

NextMatch == \E b \in Calls : \E body \in MatchBodies(b) : BookRide_Begin(b, body)

SpecMatch == InitMatch /\ [][NextMatch]_vars

(***************************************************************************)
(* calculateDynamicPrice on its own: the collections are drawn over the    *)
(* number of cabs, of cabs with a trip and of pending requests, and every  *)
(* step is one call, whose surge lookup succeeds or fails.                 *)
(***************************************************************************)
\* A fleet of k cabs as the seed makes them.
QuoteCabs(k) == [c \in 1..k |-> [capacity |-> CabCapacity, currentLocation |-> CabLocation]]

\* The ActiveRide collection with a trip of user c on each of the cabs
\* 1..j, every trip priced when it was booked.
RECURSIVE QuoteRides(_, _)
QuoteRides(cabDB, j) ==
  IF j = 0 THEN <<>>
  ELSE CHOOSE after \in {Append(before,
                               NewActiveRide(j, NewRideRequest(EarlierBody(j)),
                                             <<cabDB[j].currentLocation, PickupPoint,
                                               DropoffPoint>>,
                                             calculateDynamicPrice(PickupPoint, DropoffPoint, 1,
                                                                   cabDB, before, NoRequests))) :
                          before \in {QuoteRides(cabDB, j - 1)}} :
         TRUE

\* The RideRequest collection: the requests of the passengers of rideDB
\* matched, and those of the next p users pending.
QuoteRequests(rideDB, p) ==
  [u \in Users |->
     IF u <= Len(rideDB)
     THEN Matched(NewRideRequest(EarlierBody(u)), rideDB[u].totalPrice)
     ELSE IF u <= Len(rideDB) + p THEN NewRideRequest(EarlierBody(u))
     ELSE NoRequest]

InitQuote ==
  /\ \E k \in 1..MaxFleet : \E j \in 0..k : \E p \in 0..(Cardinality(Users) - j) :
       /\ cabs = QuoteCabs(k)
       /\ rides = QuoteRides(QuoteCabs(k), j)
       /\ requests = QuoteRequests(QuoteRides(QuoteCabs(k), j), p)
  /\ InitHandlers

\* The drop-off points prices are quoted for.
QuoteDropoffs == {DropoffPoint, <<3, 3>>}

\* const pricingResult = await calculateDynamicPrice(pickupLocation,
\* dropoffLocation, passengerCount).
Quote(pickupLocation, dropoffLocation, passengerCount, lookupFailed) ==
  /\ quote' = priceResult(pickupLocation, dropoffLocation, passengerCount, lookupFailed,
                          cabs, rides, requests)
  /\ UNCHANGED <<cabs, rides, requests, bookVars, cancelVars>>

NextQuote ==
  \E dropoffLocation \in QuoteDropoffs : \E passengerCount \in 0..(CabCapacity + 1) :
    \E lookupFailed \in BOOLEAN :
      Quote(PickupPoint, dropoffLocation, passengerCount, lookupFailed)

SpecQuote == InitQuote /\ [][NextQuote]_vars

(***************************************************************************)
(* The handlers with the engine of services/matchingEngine.js: the steps   *)
(* of bookRide that call findBestMatch call that engine, every other step  *)
(* is the same.                                                            *)
(***************************************************************************)
services_BookRide_Begin(b, body) ==
  /\ pc[b] = "idle"
  /\ \A a \in Calls : a < b => pc[a] # "idle"
  /\ IF ~WellFormedBody(body)
     THEN Respond(b, 400) /\ abortTransaction(b)
     ELSE IF ~(ValidCoordinates(body.pickupLocation)
               /\ ValidCoordinates(body.dropoffLocation))
     THEN Respond(b, 400) /\ abortTransaction(b)     \* ValidationError of save
     ELSE \E rideRequest \in {NewRideRequest(body)} :
          \E m \in {services_findBestMatch(rideRequest, cabs, rides)} :
             /\ req' = [req EXCEPT ![b] = rideRequest]
             /\ bestMatch' = [bestMatch EXCEPT ![b] = m]
             /\ fresh' = [fresh EXCEPT ![b] = Read(m, rides)]
             /\ pc' = [pc EXCEPT ![b] = IF m.type = "none" THEN "claim" ELSE "attempt"]
             /\ UNCHANGED <<rides, requests, activeRide, retryCount, response>>
  /\ UNCHANGED <<cabs, cancelVars, quote>>

services_BookRide_Rematch(b) ==
  /\ pc[b] = "rematch"
  /\ \E updatedMatch \in {services_findBestMatch(req[b], cabs, rides)} :
        IF updatedMatch.type = "none"
        THEN Respond(b, 409) /\ commitTransaction(b, rides, req[b])
        ELSE IF retryCount[b] < maxRetries
        THEN /\ bestMatch' = [bestMatch EXCEPT ![b] = Refreshed(@, updatedMatch)]
             /\ fresh' = [fresh EXCEPT ![b] = Read(updatedMatch, rides)]
             /\ pc' = [pc EXCEPT ![b] = "attempt"]
             /\ UNCHANGED <<rides, requests, req, activeRide, retryCount,
                            response>>
        ELSE Respond(b, 409) /\ abortTransaction(b)
  /\ UNCHANGED <<cabs, cancelVars, quote>>

NextServices ==
  \/ \E b \in Calls : \E body \in Bodies(b) : services_BookRide_Begin(b, body)
  \/ \E b \in Calls : BookRide_Claim(b)
  \/ \E b \in Calls : BookRide_Load(b)
  \/ \E b \in Calls : BookRide_Create(b)
  \/ \E b \in Calls : BookRide_Save(b)
  \/ \E b \in Calls : services_BookRide_Rematch(b)
  \/ \E c \in Cancels : \E rideId \in 1..(Len(rides) + 1) : \E userId \in Users :
       Cancel_Load(c, rideId, userId)
  \/ \E c \in Cancels : Cancel_Save(c)

SpecServices == Init /\ [][NextServices]_vars

(***************************************************************************)
(* Bookings by a requester who books more than once: every call may carry  *)
(* the userId of the first caller.                                         *)
(***************************************************************************)
RepeatUser == Cardinality(EarlierUsers) + 1

RepeatBodies(b) ==
  [userId : {b, RepeatUser},
   pickupLocation : {PickupPoint},
   dropoffLocation : {DropoffPoint},
   detourTolerance : {DefaultDetourTolerance},
   luggageCount : {1}]

NextRepeat ==
  \/ \E b \in Calls : \E body \in RepeatBodies(b) : BookRide_Begin(b, body)
  \/ \E b \in Calls : BookRide_Claim(b)
  \/ \E b \in Calls : BookRide_Load(b)
  \/ \E b \in Calls : BookRide_Create(b)
  \/ \E b \in Calls : BookRide_Save(b)
  \/ \E b \in Calls : BookRide_Rematch(b)
  \/ \E c \in Cancels : \E rideId \in 1..(Len(rides) + 1) : \E userId \in Users :
       Cancel_Load(c, rideId, userId)
  \/ \E c \in Cancels : Cancel_Save(c)

SpecRepeat == Init /\ [][NextRepeat]_vars

(***************************************************************************)
(* Bookings with different drop-off points against the one trip of user 1: *)
(* the same handlers, each call with its own drop-off.                     *)
(***************************************************************************)
RouteDropoff(b) ==
  CASE b = Cardinality(EarlierUsers) + 1 -> NearDropoff
    [] b = Cardinality(EarlierUsers) + 2 -> NorthDropoff
    [] OTHER -> DropoffPoint

RouteBodies(b) ==
  {[userId |-> b, pickupLocation |-> PickupPoint, dropoffLocation |-> RouteDropoff(b),
    detourTolerance |-> DefaultDetourTolerance, luggageCount |-> 1]}

InitRoute ==
  /\ cabs = WarmCabs
  /\ rides = WarmFirstRides
  /\ requests = WarmFirstRequests
  /\ InitHandlers

NextRoute ==
  \/ \E b \in Calls : \E body \in RouteBodies(b) : BookRide_Begin(b, body)
  \/ \E b \in Calls : BookRide_Claim(b)
  \/ \E b \in Calls : BookRide_Load(b)
  \/ \E b \in Calls : BookRide_Create(b)
  \/ \E b \in Calls : BookRide_Save(b)
  \/ \E b \in Calls : BookRide_Rematch(b)
  \/ \E c \in Cancels : \E rideId \in 1..(Len(rides) + 1) : \E userId \in Users :
       Cancel_Load(c, rideId, userId)
  \/ \E c \in Cancels : Cancel_Save(c)

SpecRoute == InitRoute /\ [][NextRoute]_vars

(***************************************************************************)
(* Properties.                                                             *)
(***************************************************************************)
UsersOf(ride) == {ride.passengers[i].userId : i \in 1..Len(ride.passengers)}

ActiveRidesOf(c) == {r \in DOMAIN rides : rides[r].cabId = c /\ rides[r].status = "active"}

InFlight(b) == pc[b] \notin {"idle", "done"}

\* Call b ends in this step with a booking made.
Books(b) == InFlight(b) /\ pc'[b] = "done" /\ response'[b] \in {200, 201}

\* C1: every cab is referenced by at most one active trip, so of the
\* concurrent new_ride writes on one idle cab at most one has succeeded.
C1_OneActiveTripPerCab == \A c \in CabIds : Cardinality(ActiveRidesOf(c)) <= 1

\* A call that matched the idle cab as a new_ride is about to insert its
\* trip, and another call has claimed the cab since.
C1_LateClaimPending ==
  \E a, b \in Calls :
    /\ a # b
    /\ response[a] = 200
    /\ pc[b] = "attempt"
    /\ bestMatch[b].type = "new_ride"
    /\ Len(bestMatch[b].route) = 3
    /\ \E r \in ActiveRidesOf(bestMatch[b].cabId) : UsersOf(rides[r]) = {a}

\* C2: the passengers of every active trip are at most the capacity of its
\* cab; as a pooling commit appends one passenger, it appends only to a trip
\* whose count was below the capacity when it wrote.
C2_PassengersWithinCapacity ==
  \A r \in DOMAIN rides :
    rides[r].status = "active"
      => Len(rides[r].passengers) <= cabs[rides[r].cabId].capacity

\* A trip has been filled by pooling commits while a call that matched it
\* is still to load it.
C2_FilledWhileMatched ==
  \E b \in Calls :
    /\ pc[b] = "attempt"
    /\ bestMatch[b].type = "pooling"
    /\ LET r == bestMatch[b].activeRideId
       IN /\ rides[r].status = "active"
          /\ rides[r].v >= 1
          /\ Len(rides[r].passengers) = cabs[rides[r].cabId].capacity

\* C3: after every successful booking commit the luggage of the passengers
\* of the trip sums to at most the capacity of its cab.
C3_LuggageWithinCapacity ==
  \A r \in DOMAIN rides :
    rides[r].status = "active"
      => SumLuggage(rides[r].passengers) <= cabs[rides[r].cabId].capacity

\* C4: a pooling commit succeeds only if the version of the trip when it is
\* written is the version the trip had when the match was computed.
C4_CommitAtMatchedVersion ==
  [][\A b \in Calls :
       (pc[b] = "save" /\ Books(b))
         => rides[activeRide[b].id].v = fresh[b].v]_vars

\* The price bookRide computes in the current state for call b as passenger
\* number n of a trip.
PriceNow(b, n) ==
  calculateDynamicPrice(req[b].pickupLocation, req[b].dropoffLocation, n,
                        cabs, rides, requests)

\* C5: a committed booking writes only values derived from what its attempt
\* read: the trip, the cab and the route are those of the findBestMatch
\* result the attempt started from (after a conflict, the fresh one), the
\* type of the commit is the type of that result, and the price is the one
\* computed in the attempt.
C5_CommitUsesFreshMatch ==
  [][\A b \in Calls :
       /\ (pc[b] = "save" /\ Books(b))
            => LET id == fresh[b].activeRideId
               IN /\ fresh[b].type = "pooling"
                  /\ activeRide[b].id = id
                  /\ rides'[id].cabId = fresh[b].cabId
                  /\ rides'[id].currentRoute = fresh[b].route
                  /\ UsersOf(rides'[id]) = UsersOf(rides[id]) \cup {b}
                  /\ rides'[id].totalPrice = PriceNow(b, Len(rides'[id].passengers))
                  /\ requests'[b].price = rides'[id].totalPrice
       /\ (pc[b] = "attempt" /\ Books(b))
            => LET id == Len(rides')
               IN /\ fresh[b].type = "new_ride"
                  /\ Len(rides') = Len(rides) + 1
                  /\ rides'[id].cabId = fresh[b].cabId
                  /\ rides'[id].currentRoute = fresh[b].route
                  /\ UsersOf(rides'[id]) = {b}
                  /\ rides'[id].totalPrice = PriceNow(b, 1)
                  /\ requests'[b].price = rides'[id].totalPrice]_vars

\* After a version conflict a call has matched again and loaded the trip of
\* the new match, whose route differs from the route it matched before; its
\* save is about to succeed.
C5_RetriedCommitPending ==
  \E b \in Calls :
    /\ pc[b] = "save"
    /\ retryCount[b] >= 1
    /\ VersionMatches(activeRide[b], rides)
    /\ fresh[b].v > 0
    /\ Len(fresh[b].route) > Len(activeRide[b].currentRoute)

\* Call b meets a conflict in its next step: the version of the trip it
\* loaded has changed, or the cab it is to insert a trip for has an active
\* trip.
Conflicts(b) ==
  \/ pc[b] = "save" /\ ~VersionMatches(activeRide[b], rides)
  \/ pc[b] = "attempt" /\ bestMatch[b].type = "new_ride"
       /\ DuplicateKey(bestMatch[b].cabId, rides)
  \/ pc[b] = "claim" /\ findOneCab(cabs) # 0 /\ DuplicateKey(findOneCab(cabs), rides)

\* C6: a booking that meets a version mismatch or a uniqueness violation
\* with fewer than 3 attempts made runs findBestMatch again instead of
\* ending in failure.
C6_ConflictIsRetried ==
  [][\A b \in Calls :
       (Conflicts(b) /\ retryCount[b] + 1 < maxRetries /\ pc'[b] # pc[b])
         => pc'[b] = "rematch"]_vars

\* C7: a booking whose third attempt conflicted ends with 409, its
\* transaction aborted and nothing written.
C7_ExhaustionWritesNothing ==
  [][\A b \in Calls :
       (pc[b] = "rematch" /\ retryCount[b] = maxRetries /\ pc'[b] = "done")
         => (response'[b] = 409 /\ rides' = rides /\ requests' = requests)]_vars

\* C8: in every step the request of a booking becomes matched, with its
\* price, exactly when its requester becomes a passenger of a trip.
C8_RequestAndTripTogether ==
  [][\A b \in Calls :
       LET matchedNow == requests'[b].status = "matched" /\ requests[b].status # "matched"
           joinedNow ==
             \E r \in DOMAIN rides' :
               /\ b \in UsersOf(rides'[r])
               /\ (r \in DOMAIN rides => b \notin UsersOf(rides[r]))
       IN /\ matchedNow <=> joinedNow
          /\ matchedNow => requests'[b].price > 0]_vars

\* One booking is persisted with its request matched and its passenger in a
\* trip, another has failed in its pooling commit or its insert and left
\* neither a request nor a passenger.
C8_OneBookedOneFailed ==
  \E a, b \in Calls :
    /\ requests[a].status = "matched" /\ requests[a].price > 0
    /\ \E r \in DOMAIN rides : a \in UsersOf(rides[r])
    /\ pc[b] = "done" /\ response[b] \in {409, 500}
    /\ requests[b] = NoRequest
    /\ \A r \in DOMAIN rides : b \notin UsersOf(rides[r])

\* C9: every matched request has a price, and some trip has its requester
\* among its passengers.
C9_MatchedHasTrip ==
  \A u \in Users :
    requests[u].status = "matched"
      => /\ requests[u].price > 0
         /\ \E r \in DOMAIN rides : u \in UsersOf(rides[r])

\* The ride request call a carries, or has persisted.
RequestOf(a) == IF InFlight(a) THEN req[a] ELSE requests[a]

\* All the calls have been started against the idle cab with the request of
\* call b, as many as the cab has seats, and no cancellation was started.
ConcurrentIdentical(b) ==
  /\ \A c \in CabIds : cabs[c].capacity = NumBookings
  /\ \A c \in Cancels : cpc[c] = "idle"
  /\ \A a \in Calls :
       /\ pc[a] # "idle"
       /\ InFlight(a) => bestMatch[a].type = "new_ride" /\ Len(bestMatch[a].route) = 3
       /\ RequestOf(a).pickupLocation = req[b].pickupLocation
       /\ RequestOf(a).dropoffLocation = req[b].dropoffLocation
       /\ RequestOf(a).luggageCount = req[b].luggageCount

\* C10: of N concurrent identical bookings against one idle cab of capacity
\* C = N none fails: every one ends with a booking made.
C10_AllSeatsBooked ==
  [][\A b \in Calls :
       (ConcurrentIdentical(b) /\ req[b].luggageCount = 1 /\ InFlight(b) /\ pc'[b] = "done")
         => response'[b] \in {200, 201}]_vars

\* C11: when as many identical bookings as the cab has seats run
\* concurrently against the idle cab standing at their pickup point, every
\* one of them ends in a commit: the one that finds no trip inserts it as a
\* new_ride, every other one is a pooling commit that adds its passenger to
\* that same trip, which so ends with one passenger per booking.
C11_OneNewRideOthersPooled ==
  [][\A b \in Calls :
       (/\ ConcurrentIdentical(b)
        /\ req[b].luggageCount = 1
        /\ \A c \in CabIds : cabs[c].currentLocation = req[b].pickupLocation
        /\ InFlight(b) /\ pc'[b] = "done")
         => /\ response'[b] \in {200, 201}
            /\ Len(rides') = 1
            /\ IF rides = <<>>
               THEN UsersOf(rides'[1]) = {b}
               ELSE /\ pc[b] = "save"
                    /\ UsersOf(rides'[1]) = UsersOf(rides[1]) \cup {b}]_vars

\* C12: a booking for which findBestMatch found nothing claims a cab only
\* if that cab has no active trip; when every cab has an active trip it ends
\* with 404 (no cabs available) and leaves the trips as they were.
C12_NoIdleCabIsNoCapacity ==
  [][\A b \in Calls :
       (pc[b] = "claim" /\ pc'[b] = "done")
         => /\ response'[b] = 201
                 => /\ Len(rides') = Len(rides) + 1
                    /\ ActiveRidesOf(rides'[Len(rides')].cabId) = {}
            /\ (\A c \in CabIds : ActiveRidesOf(c) # {})
                 => (response'[b] = 404 /\ rides' = rides)]_vars

\* Call b is about to find that another request was first: the trip it
\* matched is gone, no longer active or full, or the cab it is to insert a
\* trip for has an active trip.
LosesRace(b) ==
  \/ /\ pc[b] = "attempt" /\ bestMatch[b].type = "pooling"
     /\ LET doc == findById(bestMatch[b].activeRideId, rides)
        IN \/ doc.id = 0
           \/ doc.status # "active"
           \/ Len(doc.passengers) >= cabs[doc.cabId].capacity
  \/ /\ pc[b] = "attempt" /\ bestMatch[b].type = "new_ride"
     /\ DuplicateKey(bestMatch[b].cabId, rides)

\* C13: a booking that loses a race with another request ends with 409 or
\* 404, never with 500.
C13_RaceLoserGetsConflict ==
  [][\A b \in Calls :
       (LosesRace(b) /\ pc'[b] = "done") => response'[b] \in {404, 409}]_vars

\* The place of a status on pending -> matched -> {completed | cancelled};
\* 0 for a request that is not persisted.
StatusRank(status) ==
  CASE status = "none" -> 0
    [] status = "pending" -> 1
    [] status = "matched" -> 2
    [] status \in {"completed", "cancelled"} -> 3

\* C14: the status of a RideRequest only moves forward along
\* pending -> matched -> {completed | cancelled}: no step of a booking or of
\* a cancellation takes a matched request back to pending, or changes the
\* status of a completed or cancelled request.
C14_StatusMovesForward ==
  [][\A u \in Users :
       /\ StatusRank(requests'[u].status) >= StatusRank(requests[u].status)
       /\ requests[u].status \in {"completed", "cancelled"}
            => requests'[u].status = requests[u].status]_vars

\* A booking was made, its request matched, and its passenger then taken
\* out of the trip by a cancellation.
C14_CancelledAfterMatched ==
  /\ \E c \in Cancels : cresponse[c] = 200
  /\ \E u \in Users :
       /\ requests[u].status = "matched"
       /\ \A r \in DOMAIN rides : u \notin UsersOf(rides[r])

\* C15: a cancelRide for a requester and a trip for which a cancelRide has
\* already succeeded is answered 404, whether the first cancellation left
\* other passengers in the trip or emptied it.
C15_SecondCancelNotFound ==
  [][\A c \in Cancels : \A rideId \in DOMAIN rides : \A userId \in Users :
       (<<rideId, userId>> \in cancelled /\ Cancel_Load(c, rideId, userId))
         => cresponse'[c] = 404]_vars

\* C16: a cancelRide that succeeds for a passenger of an active trip
\* removes the passenger record of that requester and no other, and leaves
\* every other trip alone; the trip becomes cancelled if and only if no
\* passenger remains, and otherwise stays active with the other passengers
\* unchanged and the response reports how many they are.
C16_CancelRemovesOnlyRequester ==
  [][\A c \in Cancels :
       (cpc[c] = "save" /\ cresponse'[c] = 200)
         => LET id == cargs[c].rideId
                before == rides[id].passengers
                after == rides'[id].passengers
                Other(p) == p.userId # cargs[c].userId
            IN /\ rides[id].status = "active"
               /\ Len(after) = Len(before) - 1
               /\ after = SelectSeq(before, Other)
               /\ DOMAIN rides' = DOMAIN rides
               /\ \A r \in DOMAIN rides : r # id => rides'[r] = rides[r]
               /\ rides'[id].status = "cancelled" <=> after = <<>>
               /\ after # <<>>
                    => (rides'[id].status = "active" /\ cremaining'[c] = Len(after))]_vars

\* One cancellation took a passenger out of a trip of two and reported the
\* one that remained, another then emptied the trip.
C16_OneLeftThenEmptied ==
  \E c, d \in Cancels :
    /\ cresponse[c] = 200 /\ cremaining[c] = 1
    /\ cresponse[d] = 200 /\ cremaining[d] = 0
    /\ \E r \in DOMAIN rides :
         /\ rides[r].status = "cancelled"
         /\ Cardinality({u \in Users : <<r, u>> \in cancelled}) = 2

\* C17: a cancelRide whose trip was written by another handler since it
\* loaded it makes its one write attempt, is answered 409 and leaves the
\* trips as persisted; a cancelRide answered 404 leaves them unchanged too.
C17_ConflictLeavesTrip ==
  [][\A c \in Cancels :
       /\ (cpc[c] = "save" /\ rides[cdoc[c].id].v # cdoc[c].v /\ cpc'[c] # cpc[c])
            => (cpc'[c] = "done" /\ cresponse'[c] = 409 /\ rides' = rides)
       /\ (cpc[c] # "done" /\ cpc'[c] = "done" /\ cresponse'[c] \in {404, 409})
            => rides' = rides]_vars

\* A cancellation has lost a version conflict on a trip that another handler
\* wrote in between, and another cancellation was answered 404.
C17_ConflictAndNotFound ==
  \E c, d \in Cancels :
    /\ cresponse[c] = 409
    /\ cresponse[d] = 404
    /\ \E r \in DOMAIN rides : rides[r].v >= 1

\* The rows findBestMatch has for the request of call b, and what its
\* scoring loop leaves in bestMatch.
RowsOf(b) == nearbyCabs(req[b], cabs, rides)

LoopResult(b) == ScoringLoop(RowsOf(b), 1, req[b], cabs, rides, NoMatch)

\* Call b holds the result of findBestMatch on the collections as they are.
HasMatched(b) == pc[b] \in {"attempt", "claim"} /\ retryCount[b] = 0

\* The rows with a free seat.
FreeRows(b) ==
  {i \in 1..Len(RowsOf(b)) :
     cabs[RowsOf(b)[i].cab].capacity > Len(PassengersOf(RowsOf(b)[i], rides))}

\* C18: when there are candidates and every one fails the constraints,
\* findBestMatch returns the first candidate with a free seat as a new_ride
\* match, and that result differs from every clean match the caller can be
\* given, so the caller can tell the fallback from a clean match.
C18_FallbackIsDistinct ==
  \A b \in Calls :
    (HasMatched(b) /\ Len(RowsOf(b)) > 0 /\ LoopResult(b).type = "none")
      => /\ FreeRows(b) # {}
              => /\ bestMatch[b].type = "new_ride"
                 /\ \E i \in FreeRows(b) :
                      /\ \A j \in FreeRows(b) : i <= j
                      /\ bestMatch[b].cabId = RowsOf(b)[i].cab
         /\ \A a \in Calls :
              (HasMatched(a) /\ LoopResult(a).type # "none")
                => bestMatch[a] # bestMatch[b]

\* C19: the price quoted for two passengers under a surge multiplier of 1.5
\* is (base fare + distance cost) * 1.5 * 0.85, rounded to cents: the pool
\* discount factor applied for two passengers is 0.85.
C19_TwoPassengersQuoted ==
  (quote.success /\ quote.passengerCount = 2 /\ quote.surgeMultiplier = 150)
    => /\ quote.poolDiscountFactor = 85
       /\ quote.price = roundedPrice(quote.distance, 150, 85)

\* The cabs of the Cab collection that no ActiveRide names.
AvailableCabs == Cardinality(DOMAIN cabs) - Cardinality({rides[r].cabId : r \in DOMAIN rides})

\* C20: for every number of cabs, of cabs with trips and of pending
\* requests the surge multiplier lies in [1.0, 3.0], and so does the one of
\* every quote; a quote whose surge lookup failed uses 1.0 and still
\* succeeds with a price.
C20_SurgeWithinBounds ==
  /\ calculateSurgeMultiplier(cabs, rides, requests) >= MIN_SURGE_PCT
  /\ calculateSurgeMultiplier(cabs, rides, requests) <= MAX_SURGE_PCT
  /\ quote # NoQuote
       => /\ quote.success
          /\ quote.surgeMultiplier >= MIN_SURGE_PCT
          /\ quote.surgeMultiplier <= MAX_SURGE_PCT
          /\ quote.price > 0
          /\ quote.lookupFailed
               => /\ quote.surgeMultiplier = MIN_SURGE_PCT
                  /\ quote.price = roundedPrice(quote.distance, MIN_SURGE_PCT,
                                                quote.poolDiscountFactor)

\* A quote was made with a failed surge lookup while no cab was available
\* and requests were pending, where the lookup gives the cap of 3.0.
C20_FailedLookupUnderSurge ==
  /\ quote.success /\ quote.lookupFailed
  /\ quote.surgeMultiplier = MIN_SURGE_PCT
  /\ AvailableCabs = 0
  /\ \E u \in Users : requests[u].status = "pending"
  /\ calculateSurgeMultiplier(cabs, rides, requests) = MAX_SURGE_PCT

\* A body the booking contract rejects: userId or a location missing, a
\* location that is not a Point of two coordinates, a coordinate out of
\* range.
InvalidBody(body) ==
  \/ body.userId = 0
  \/ \E loc \in {body.pickupLocation, body.dropoffLocation} :
       \/ Len(loc) # 2
       \/ loc[1] < -18000 \/ loc[1] > 18000
       \/ loc[2] < -9000 \/ loc[2] > 9000

\* C21: a booking with an invalid body is answered 400 in the step that
\* reads it, before findBestMatch is run and without a retry, and persists
\* no request and no change of a trip.
C21_InvalidInputRejected ==
  [][\A b \in Calls : \A body \in Bodies(b) :
       (InvalidBody(body) /\ BookRide_Begin(b, body))
         => /\ pc'[b] = "done" /\ response'[b] = 400
            /\ bestMatch'[b] = NoMatch /\ fresh'[b] = NoFresh
            /\ retryCount'[b] = 0
            /\ rides' = rides /\ requests' = requests]_vars

\* A booking was rejected for its body after another one was made; it left
\* no request and no passenger.
C21_RejectedAfterBooking ==
  \E a, b \in Calls :
    /\ response[a] \in {200, 201}
    /\ a < b /\ response[b] = 400
    /\ requests[b] = NoRequest
    /\ \A r \in DOMAIN rides : b \notin UsersOf(rides[r])

\* C22: every match findBestMatch returns is a pooling match exactly when
\* the cab it names has an active trip, and then it names that trip; it is a
\* new_ride match exactly when the cab has none, so a new_ride match never
\* names a cab that has an active trip.
C22_TypeFollowsActiveTrip ==
  \A b \in Calls :
    (HasMatched(b) /\ bestMatch[b].type # "none")
      => LET active == ActiveRidesOf(bestMatch[b].cabId)
         IN /\ bestMatch[b].type = "pooling" <=> active # {}
            /\ bestMatch[b].type = "new_ride" <=> active = {}
            /\ bestMatch[b].type = "pooling" => bestMatch[b].activeRideId \in active

\* What the scoring loop computes for row i of call b, and the rows it
\* accepts: those that pass the seat, luggage and detour checks.
CandidateOf(b, i) == Candidate(RowsOf(b)[i], req[b], cabs, rides)

Accepted(b) == {i \in 1..Len(RowsOf(b)) : CandidateOf(b, i).type # "none"}

\* C23: when some candidate passes the seat, luggage and detour checks,
\* findBestMatch returns the one of them with the least deviation score, and
\* of those with that score the first in the order of the candidates.
C23_MinimumScoreFirst ==
  \A b \in Calls :
    (HasMatched(b) /\ Accepted(b) # {})
      => \E i \in Accepted(b) :
           /\ bestMatch[b] = CandidateOf(b, i)
           /\ \A j \in Accepted(b) :
                \/ CandidateOf(b, i).deviationScore < CandidateOf(b, j).deviationScore
                \/ /\ CandidateOf(b, i).deviationScore = CandidateOf(b, j).deviationScore
                   /\ i <= j

\* For one call the second candidate has the lower score and is returned;
\* for another the two candidates have the same score and the first is
\* returned.
C23_LaterWinsAndTie ==
  \E a, b \in Calls :
    /\ HasMatched(a) /\ Accepted(a) = {1, 2}
    /\ CandidateOf(a, 2).deviationScore < CandidateOf(a, 1).deviationScore
    /\ bestMatch[a] = CandidateOf(a, 2)
    /\ HasMatched(b) /\ Accepted(b) = {1, 2}
    /\ CandidateOf(b, 1).deviationScore = CandidateOf(b, 2).deviationScore
    /\ bestMatch[b] = CandidateOf(b, 1)

\* The passengers of the trip a match names (none for a new_ride match).
TargetPassengers(m) == IF m.activeRideId = 0 THEN <<>> ELSE rides[m.activeRideId].passengers

\* C24: a match that findBestMatch returns from its scoring loop (not the
\* fallback) names a cab with a free seat, and the luggage of the passengers
\* of the target plus that of the new request is at most the capacity of
\* the cab.
C24_CleanMatchFits ==
  \A b \in Calls :
    (HasMatched(b) /\ LoopResult(b).type # "none")
      => LET m == bestMatch[b]
         IN /\ cabs[m.cabId].capacity - Len(TargetPassengers(m)) > 0
            /\ SumLuggage(TargetPassengers(m)) + req[b].luggageCount
                 <= cabs[m.cabId].capacity

\* One call has a pooling match that fills the luggage room of the cab
\* exactly; another one, with more luggage, was refused by the scoring loop.
C24_FitsExactlyAndRefused ==
  \E a, b \in Calls :
    /\ HasMatched(a) /\ LoopResult(a).type = "pooling"
    /\ SumLuggage(TargetPassengers(bestMatch[a])) + req[a].luggageCount
         = cabs[bestMatch[a].cabId].capacity
    /\ HasMatched(b) /\ Len(RowsOf(b)) > 0 /\ LoopResult(b).type = "none"
    /\ req[b].luggageCount > req[a].luggageCount

\* originalRoutePoints of the scoring loop for the trip a match names.
OriginalRoute(m) ==
  <<cabs[m.cabId].currentLocation>>
    \o [i \in 1..Len(TargetPassengers(m)) |-> TargetPassengers(m)[i].pickupLocation]
    \o [i \in 1..Len(TargetPassengers(m)) |-> TargetPassengers(m)[i].dropoffLocation]

\* The metres the route of a match adds to the route of its trip.
ExtraDistance(m) == calculateRouteDistance(m.route) - calculateRouteDistance(OriginalRoute(m))

\* C25: a request with a detourTolerance of 0 minutes is never given a
\* pooling match whose route is longer than the route of the trip was
\* without it.
C25_ZeroToleranceNotPooled ==
  \A b \in Calls :
    (HasMatched(b) /\ req[b].detourTolerance = 0 /\ bestMatch[b].type = "pooling")
      => ExtraDistance(bestMatch[b]) <= 0

\* The rows of call b that carry an active trip and reach the detour check
\* of the scoring loop.
TripRows(b) ==
  {i \in FreeRows(b) :
     /\ RowsOf(b)[i].activeRide # 0
     /\ checkLuggageConstraint(PassengersOf(RowsOf(b)[i], rides), req[b].luggageCount,
                               cabs[RowsOf(b)[i].cab].capacity)}

\* What the detour check of the scoring loop gives for passenger k of row
\* i, whether the passenger and the request have the same pickup and
\* drop-off points, and whether the extra kilometres are within
\* 5 / 60 * 40 km.
DetourCheck(b, i, k) ==
  LET row == RowsOf(b)[i]
      passengers == PassengersOf(row, rides)
      cabLocation == cabs[row.cab].currentLocation
      originalRoutePoints ==
        <<cabLocation>>
          \o [n \in 1..Len(passengers) |-> passengers[n].pickupLocation]
          \o [n \in 1..Len(passengers) |-> passengers[n].dropoffLocation]
      candidateRoute == createOptimalRoute(passengers, req[b], cabLocation)
      extraM == calculateRouteDistance(candidateRoute)
                  - calculateRouteDistance(originalRoutePoints)
  IN [result |-> checkDetourTolerance(passengers[k], req[b], originalRoutePoints,
                                      candidateRoute),
      identical |-> /\ passengers[k].pickupLocation = req[b].pickupLocation
                    /\ passengers[k].dropoffLocation = req[b].dropoffLocation,
      within |-> extraM * 60 <= DefaultDetourTolerance * AverageSpeedKmh * 1000]

\* C26: checkDetourTolerance accepts without computing the detour exactly
\* when the pickup and the drop-off point of the passenger are those of the
\* new request, in longitude and latitude; for every other pair its result
\* is that of the comparison of the extra kilometres with the tolerance.
C26_FastPathOnlyForIdentical ==
  \A b \in Calls :
    HasMatched(b)
      => \A i \in TripRows(b) : \A k \in 1..Len(PassengersOf(RowsOf(b)[i], rides)) :
           DetourCheck(b, i, k).result
             = (DetourCheck(b, i, k).identical \/ DetourCheck(b, i, k).within)

\* The points createOptimalRoute is to visit for row i of call b, and the
\* route it builds.
PointsOf(b, i) ==
  LET passengers == PassengersOf(RowsOf(b)[i], rides)
  IN <<req[b].pickupLocation, req[b].dropoffLocation>>
       \o [n \in 1..Len(passengers) |-> passengers[n].pickupLocation]
       \o [n \in 1..Len(passengers) |-> passengers[n].dropoffLocation]

RouteOf(b, i) ==
  createOptimalRoute(PassengersOf(RowsOf(b)[i], rides), req[b],
                     cabs[RowsOf(b)[i].cab].currentLocation)

\* How often point pt occurs in sequence seq.
Occurrences(seq, pt) == Cardinality({n \in 1..Len(seq) : seq[n] = pt})

\* C27: for the passengers of every candidate, the new request and the
\* location of the cab, the route builder returns a route that starts at
\* the location of the cab and then holds the pickup and the drop-off point
\* of the request and of every passenger once each (1 + 2 * (n + 1)
\* points), every point being one of the nearest to the point before it
\* among those not visited yet; the route of a returned match is such a
\* route.
C27_RouteVisitsAllNearestFirst ==
  \A b \in Calls :
    HasMatched(b)
      => /\ \A i \in 1..Len(RowsOf(b)) :
              LET route == RouteOf(b, i)
                  points == PointsOf(b, i)
              IN /\ route[1] = cabs[RowsOf(b)[i].cab].currentLocation
                 /\ Len(route) = 1 + Len(points)
                 /\ Len(points) = 2 * (Len(PassengersOf(RowsOf(b)[i], rides)) + 1)
                 /\ \A n \in 1..Len(points) :
                      Occurrences(Tail(route), points[n]) = Occurrences(points, points[n])
                 /\ \A k \in 2..Len(route) : \A j \in k..Len(route) :
                      calculateDistance(route[k - 1], route[k])
                        <= calculateDistance(route[k - 1], route[j])
         /\ bestMatch[b].type # "none"
              => \E i \in 1..Len(RowsOf(b)) :
                   /\ RowsOf(b)[i].cab = bestMatch[b].cabId
                   /\ bestMatch[b].route = RouteOf(b, i)

\* A pooling match whose route takes the pickup of the passenger before the
\* drop-off of the request and the drop-off of the passenger last.
C27_InterleavedRoute ==
  \E b \in Calls :
    /\ HasMatched(b) /\ bestMatch[b].type = "pooling"
    /\ req[b].dropoffLocation = NearDropoff
    /\ Len(bestMatch[b].route) = 5
    /\ bestMatch[b].route[3] = TargetPassengers(bestMatch[b])[1].pickupLocation
    /\ bestMatch[b].route[4] = req[b].dropoffLocation
    /\ bestMatch[b].route[5] = TargetPassengers(bestMatch[b])[1].dropoffLocation

\* The route the greedy nearest-neighbour builder of the engine gives from
\* cabLocation through the pickup and drop-off points of passengers.
BuilderRoute(passengers, cabLocation) ==
  NearestNeighbour(<<cabLocation>>,
                   [n \in 1..Len(passengers) |-> passengers[n].pickupLocation]
                     \o [n \in 1..Len(passengers) |-> passengers[n].dropoffLocation])

\* C28: after a cancellation that leaves passengers in the trip, the
\* persisted route of the trip is the route the nearest-neighbour builder
\* gives for the remaining passengers from the location of the cab.
C28_CancelRouteIsBuilderRoute ==
  [][\A c \in Cancels :
       (cpc[c] = "save" /\ cresponse'[c] = 200
          /\ rides'[cargs[c].rideId].passengers # <<>>)
         => LET ride == rides'[cargs[c].rideId]
            IN ride.currentRoute
                 = BuilderRoute(ride.passengers, cabs[ride.cabId].currentLocation)]_vars

PointsOnRoute(ride) == {ride.currentRoute[n] : n \in 1..Len(ride.currentRoute)}

\* C30: the persisted route of every active trip contains the pickup point
\* and the drop-off point of each of the trip's current passengers.
C30_RouteCoversPassengers ==
  \A r \in DOMAIN rides :
    rides[r].status = "active"
      => \A n \in 1..Len(rides[r].passengers) :
           /\ rides[r].passengers[n].pickupLocation \in PointsOnRoute(rides[r])
           /\ rides[r].passengers[n].dropoffLocation \in PointsOnRoute(rides[r])

\* The failure responses of bookRide.
FailureStatus == {400, 404, 409, 500}

\* C31: a bookRide call that ends in a failure response leaves the
\* collections as they were: no RideRequest and no trip change of the call
\* is persisted.
C31_FailureLeavesNoTrace ==
  [][\A b \in Calls :
       (response[b] = 0 /\ response'[b] \in FailureStatus)
         => rides' = rides /\ requests' = requests]_vars

\* The users in the passenger list of some trip.
PassengersEverywhere == UNION {UsersOf(rides[r]) : r \in DOMAIN rides}

\* The users whose booking committed and whose cancellation did not.
BookedNotCancelled ==
  {u \in Users : requests[u].status = "matched"}
    \ {u \in Users : \E r \in DOMAIN rides : <<r, u>> \in cancelled}

\* The trip a pooling booking matched while it was active has since been
\* cancelled by a cancellation that committed.
TripCancelledUnder(b) ==
  /\ bestMatch[b].type = "pooling"
  /\ bestMatch[b].activeRideId \in DOMAIN rides
  /\ rides[bestMatch[b].activeRideId].status = "cancelled"

\* C32: when a pooling booking and a cancellation run concurrently on one
\* trip no update is lost: the passengers are those whose booking committed
\* less those whose cancellation committed, and a booking that does not
\* commit because the cancellation did is answered with a conflict (409).
C32_NoLostUpdate ==
  [][/\ PassengersEverywhere' = BookedNotCancelled'
     /\ \A b \in Calls :
          (response[b] = 0 /\ response'[b] # 0 /\ TripCancelledUnder(b))
            => response'[b] \in {200, 409}]_vars

\* The passenger lists alone: no committed push or splice is lost.
C32_PassengersAccounted == PassengersEverywhere = BookedNotCancelled

\* C33: every trip with status active has at least one passenger.
C33_ActiveTripHasPassenger ==
  \A r \in DOMAIN rides : rides[r].status = "active" => rides[r].passengers # <<>>

\* A trip was emptied and cancelled while a booking that had loaded it with
\* its last passenger was about to save it.
C33_EmptiedUnderBooking ==
  \E b \in Calls :
    /\ pc[b] = "save"
    /\ Len(activeRide[b].passengers) = 1
    /\ rides[activeRide[b].id].status = "cancelled"
    /\ rides[activeRide[b].id].passengers = <<>>

\* C34: a trip whose status is cancelled or completed is never changed
\* again: no booking appends to it, no cancellation modifies it, its status
\* does not return to active.
C34_ClosedTripIsFinal ==
  [][\A r \in DOMAIN rides :
       rides[r].status \in {"cancelled", "completed"} => rides'[r] = rides[r]]_vars

\* A booking that matched a trip for pooling is about to load it, and the
\* trip has been cancelled since the match.
C34_CancelledBeforeLoad ==
  \E b \in Calls : pc[b] = "attempt" /\ TripCancelledUnder(b)

\* Trips exist and every one of them has been cancelled: the cabs that had
\* a trip are idle again.
AllTripsCancelled ==
  /\ rides # <<>>
  /\ \A r \in DOMAIN rides : rides[r].status = "cancelled"

\* C35: when the only trip of a cab has been cancelled, a later booking
\* claims the cab again: its match is a new_ride, not a pooling match into
\* the cancelled trip, and its commit succeeds with a new active trip of the
\* cab that holds the requester alone.
C35_CancelledCabClaimedAgain ==
  [][\A b \in Calls :
       /\ (AllTripsCancelled /\ pc[b] = "idle" /\ pc'[b] # "idle" /\ response'[b] = 0)
            => /\ bestMatch'[b].type = "new_ride"
               /\ bestMatch'[b].activeRideId = 0
       /\ (AllTripsCancelled /\ pc[b] = "attempt" /\ bestMatch[b].type = "new_ride"
              /\ response'[b] # 0)
            => /\ response'[b] = 200
               /\ Len(rides') = Len(rides) + 1
               /\ rides'[Len(rides')].status = "active"
               /\ rides'[Len(rides')].cabId = bestMatch[b].cabId
               /\ UsersOf(rides'[Len(rides')]) = {b}]_vars

\* C36: a requester appears at most once in the passenger list of a trip.
C36_RequesterOnceInTrip ==
  \A r \in DOMAIN rides :
    \A i, j \in 1..Len(rides[r].passengers) :
      rides[r].passengers[i].userId = rides[r].passengers[j].userId => i = j

\* C37: a successful booking changes only the trip it created or joined
\* and its own RideRequest; a successful cancellation changes only the named
\* trip.  Every other trip, every other request and every cab record stay
\* as they were.
C37_CommitsChangeOnlyTheirOwn ==
  [][/\ \A b \in Calls :
          Books(b)
            => /\ cabs' = cabs
               /\ \A u \in Users \ {b} : requests'[u] = requests[u]
               /\ requests'[b].status = "matched"
               /\ \E t \in DOMAIN rides' :
                    /\ b \in UsersOf(rides'[t])
                    /\ DOMAIN rides' = DOMAIN rides \cup {t}
                    /\ \A r \in DOMAIN rides : r # t => rides'[r] = rides[r]
     /\ \A c \in Cancels :
          (cpc[c] = "save" /\ cresponse'[c] = 200)
            => /\ cabs' = cabs
               /\ requests' = requests
               /\ DOMAIN rides' = DOMAIN rides
               /\ rides'[cargs[c].rideId] # rides[cargs[c].rideId]
               /\ \A r \in DOMAIN rides :
                    r # cargs[c].rideId => rides'[r] = rides[r]]_vars

\* A first trip was emptied by a cancellation, and a second trip was
\* created by one booking and joined by another.
C37_SecondTripJoined ==
  /\ cancelled # {}
  /\ \E r, t \in DOMAIN rides :
       /\ rides[r].status = "cancelled"
       /\ rides[t].status = "active"
       /\ Len(rides[t].passengers) >= 2
  /\ \A b \in Calls : response[b] = 200

====
